---- MODULE Spec2Model ----
(***************************************************************************)
(* Model of extract_docx.py: the extractors read_docx and read_pptx, the   *)
(* source gatherer, the brief loader, the bundle builder and the CLI       *)
(* driver main.                                                            *)
(*                                                                         *)
(* A Python str is a sequence of tokens.  A token is an indivisible piece  *)
(* of text: one whitespace character (" " or "\n"), one character of a     *)
(* file name, a whole extension body ("txt"), or a whole literal the       *)
(* program emits ("## Source Material").  strip, join, lower, replace and  *)
(* suffix work on these sequences as the Python methods work on            *)
(* characters.                                                             *)
(***************************************************************************)
EXTENDS Integers, Sequences, FiniteSets, TLC

VARIABLES
    srcExists,      \* source_dir.exists()
    dir,            \* the direct entries of source_dir: [name, isDir]
    briefFile,      \* the request file: [state, content]
    outFile,        \* the output file: [exists, content]
    outParent,      \* whether the parent directory of the output exists
    pc,             \* position of the run
    request_text,   \* main: request_text
    files,          \* gather_sources: sorted(source_dir.glob("*"))
    idx,            \* gather_sources: position of the for loop in files
    gathered,       \* gather_sources: gathered
    unsupported,    \* gather_sources: unsupported
    failures,       \* gather_sources: failures
    calls,          \* log of the extractor invocations: [path, reader, outcome]
    briefLoaded,    \* whether load_site_brief has been called
    stdout,         \* the lines printed so far
    stderr,         \* the lines the interpreter wrote to standard error
    k,              \* position of the report loops of main
    exitCode,       \* exit status of the process, -1 while it runs
    document,       \* read_docx: the body of the document
    pieces,         \* read_docx: pieces
    presentation,   \* read_pptx: the slides of the presentation
    slides_output   \* read_pptx: slides_output

vars == <<srcExists, dir, briefFile, outFile, outParent, pc, request_text,
          files, idx, gathered, unsupported, failures, calls, briefLoaded,
          stdout, stderr, k, exitCode, document, pieces, presentation,
          slides_output>>

envVars == <<srcExists, dir, briefFile>>
docVars == <<document, pieces, presentation, slides_output>>
gatherVars == <<files, idx, gathered, unsupported, failures, calls>>

(***************************************************************************)
(* Bounds                                                                  *)
(***************************************************************************)
MaxFiles == 4       \* entries in the source directory
MaxBody == 3        \* body elements of a docx document
MaxSlides == 3      \* slides of a presentation

(***************************************************************************)
(* str methods                                                             *)
(***************************************************************************)
IsSpace(t) == t \in {" ", "\n"}

RECURSIVE lstrip(_)
lstrip(s) ==
    IF s = <<>> THEN <<>>
    ELSE IF IsSpace(Head(s)) THEN lstrip(Tail(s)) ELSE s

RECURSIVE rstrip(_)
rstrip(s) ==
    IF s = <<>> THEN <<>>
    ELSE IF IsSpace(s[Len(s)]) THEN rstrip(SubSeq(s, 1, Len(s) - 1)) ELSE s

strip(s) == rstrip(lstrip(s))

RECURSIVE join(_, _)
join(sep, strs) ==
    IF strs = <<>> THEN <<>>
    ELSE IF Len(strs) = 1 THEN strs[1]
    ELSE strs[1] \o sep \o join(sep, Tail(strs))

lowerToken(t) ==
    CASE t = "TXT" -> "txt"
      [] t = "PDF" -> "pdf"
      [] t = "README" -> "readme"
      [] OTHER -> t

lower(s) == [i \in 1..Len(s) |-> lowerToken(s[i])]

replace(s, old, new) == [i \in 1..Len(s) |-> IF s[i] = old THEN new ELSE s[i]]

Contains(s, t) == \E i \in 1..Len(s) : s[i] = t

\* s has sub as a contiguous substring
HasSub(s, sub) ==
    \E i \in 0..(Len(s) - Len(sub)) : SubSeq(s, i + 1, i + Len(sub)) = sub

Backtick == "<U+0060>"
RightQuote == "<U+2019>"

\* code point order of the tokens that occur in file names
Rank(t) ==
    CASE t = "." -> 1
      [] t = "PDF" -> 2
      [] t = "README" -> 3
      [] t = "TXT" -> 4
      [] t = Backtick -> 5
      [] t = "a" -> 6
      [] t = "b" -> 7
      [] t = "csv" -> 8
      [] t = "docx" -> 9
      [] t = "md" -> 10
      [] t = "pptx" -> 11
      [] t = "txt" -> 12

RECURSIVE StrLess(_, _)
StrLess(a, b) ==
    IF b = <<>> THEN FALSE
    ELSE IF a = <<>> THEN TRUE
    ELSE IF Head(a) = Head(b) THEN StrLess(Tail(a), Tail(b))
    ELSE Rank(Head(a)) < Rank(Head(b))

(***************************************************************************)
(* pathlib                                                                 *)
(***************************************************************************)
\* 1-based position of the last "." of name, 0 when there is none
RECURSIVE rfindDot(_)
rfindDot(name) ==
    IF name = <<>> THEN 0
    ELSE IF name[Len(name)] = "." THEN Len(name)
    ELSE rfindDot(SubSeq(name, 1, Len(name) - 1))

suffix(name) ==
    LET i == rfindDot(name)
    IN  IF 1 < i /\ i < Len(name) THEN SubSeq(name, i, Len(name)) ELSE <<>>

PathLess(p, q) == StrLess(p.name, q.name)

RECURSIVE sorted(_)
sorted(S) ==
    IF S = {} THEN <<>>
    ELSE LET m == CHOOSE p \in S : \A q \in S \ {p} : PathLess(p, q)
         IN  <<m>> \o sorted(S \ {m})

glob(d) == d

(***************************************************************************)
(* READERS, sanitize_heading                                               *)
(***************************************************************************)
None == "None"

READERS ==
    (<<".", "docx">> :> "read_docx") @@
    (<<".", "pdf">> :> "read_pdf") @@
    (<<".", "pptx">> :> "read_pptx") @@
    (<<".", "txt">> :> "read_plain_text") @@
    (<<".", "md">> :> "read_plain_text")

get(table, key) == IF key \in DOMAIN table THEN table[key] ELSE None

\* reader_for without the lower(): the lookup is case-sensitive
reader_for_case_sensitive(file_path) == get(READERS, suffix(file_path.name))

reader_for(file_path) == get(READERS, lower(suffix(file_path.name)))

sanitize_heading(text) == replace(text, Backtick, RightQuote)

(***************************************************************************)
(* The environment of a run                                                *)
(***************************************************************************)
File(name) == [name |-> name, isDir |-> FALSE]
Directory(name) == [name |-> name, isDir |-> TRUE]

\* the entries a source directory is drawn from
Entries ==
    { File(<<"a", ".", "txt">>),
      File(<<"b", ".", "PDF">>),
      File(<<"b", ".", "pptx">>),
      File(<<"a", Backtick, "b", ".", "md">>),
      File(<<"b", ".", "csv">>),
      File(<<"README">>),
      File(<<".", "txt">>),
      Directory(<<"a", ".", "docx">>) }

Listings == {d \in SUBSET Entries : Cardinality(d) <= MaxFiles}

\* the markdown fences: three backticks, alone or followed by a language tag
Fence == "<U+0060 U+0060 U+0060>"
YamlFence == "<U+0060 U+0060 U+0060>yaml"
TextFence == "<U+0060 U+0060 U+0060>text"

\* what a reader returns before gather_sources strips it
RawTexts ==
    { <<"\n">>,
      <<" ", "Hi there", "\n">>,
      <<YamlFence, "\n", "x", "\n", Fence>> }

Errors == {"RuntimeError: python-docx is required", "PackageNotFoundError"}

Returns(text) == [raised |-> FALSE, text |-> text, error |-> None]
Raises(error) == [raised |-> TRUE, text |-> <<>>, error |-> error]

ReaderOutcomes == {Returns(t) : t \in RawTexts} \cup {Raises(e) : e \in Errors}

BriefFiles ==
    { [state |-> "absent", content |-> <<>>],
      [state |-> "text", content |-> <<"goal: test", "\n">>],
      [state |-> "text", content |-> <<" ", "\n">>],
      [state |-> "undecodable", content |-> <<>>] }

OldBundle == <<"# Website Request Bundle", "\n", "old", "\n">>

OutFiles ==
    { [exists |-> FALSE, content |-> <<>>],
      [exists |-> TRUE, content |-> OldBundle] }

Timestamps == {"2026-02-18T00:00:00+00:00", "2026-02-19T00:00:00+00:00"}

(***************************************************************************)
(* load_site_brief                                                         *)
(***************************************************************************)
\* path.exists() is false: "" ; read_text decodes strictly and raises on a
\* file that is not UTF-8 text
load_site_brief(f) ==
    IF f.state = "absent" THEN Returns(<<>>)
    ELSE IF f.state = "undecodable" THEN Raises("UnicodeDecodeError")
    ELSE Returns(strip(f.content))

(***************************************************************************)
(* build_bundle                                                            *)
(***************************************************************************)
Title == "# Website Request Bundle"
BriefHeading == "## Site Brief (<U+0060>request/site-brief.yaml<U+0060>)"
NoBriefHeading == "## Site Brief"
NoBriefNotice ==
    "_No site brief found. Fill out <U+0060>request/site-brief.yaml<U+0060> to capture your requirements._"
SourceHeading == "## Source Material"
NoSourcesNotice ==
    "_No supported source files discovered in the <U+0060>source/<U+0060> directory._"
NoTextNotice == "_No extractable text content found._"
H3 == "### "

\* BriefLines that renders the fenced block whether or not there is a brief
BriefLines_always_fenced(text) ==
    << <<BriefHeading>>, <<YamlFence>>, text, <<Fence>>, <<>> >>

BriefLines(text) ==
    IF text # <<>>
    THEN << <<BriefHeading>>, <<YamlFence>>, text, <<Fence>>, <<>> >>
    ELSE << <<NoBriefHeading>>, <<NoBriefNotice>>, <<>> >>

SourceSection(source) ==
    LET heading == sanitize_heading(source[1].name)
        text == source[2]
    IN  << <<H3>> \o heading >> \o
        (IF text # <<>>
         THEN << <<TextFence>>, text, <<Fence>> >>
         ELSE << <<NoTextNotice>> >>) \o
        << <<>> >>

\* SourceLines that walks the sources from the last to the first
RECURSIVE SourceLines_reversed(_)
SourceLines_reversed(sources) ==
    IF sources = <<>> THEN <<>>
    ELSE SourceLines_reversed(Tail(sources)) \o SourceSection(Head(sources))

RECURSIVE SourceLines(_)
SourceLines(sources) ==
    IF sources = <<>> THEN <<>>
    ELSE SourceSection(Head(sources)) \o SourceLines(Tail(sources))

build_bundle(text, sources, timestamp) ==
    LET lines ==
            << <<Title>>, <<"Generated: ", timestamp>>, <<>> >> \o
            BriefLines(text) \o
            << <<SourceHeading>> >> \o
            (IF sources = <<>> THEN << <<NoSourcesNotice>> >>
             ELSE SourceLines(sources))
    IN  strip(join(<<"\n">>, lines)) \o <<"\n">>

(***************************************************************************)
(* main                                                                    *)
(***************************************************************************)
Init ==
    /\ srcExists \in BOOLEAN
    /\ dir \in (IF srcExists THEN Listings ELSE {{}})
    /\ briefFile \in BriefFiles
    /\ outFile \in OutFiles
    /\ outParent \in (IF outFile.exists THEN {TRUE} ELSE BOOLEAN)
    /\ pc = "check"
    /\ request_text = <<>>
    /\ files = <<>>
    /\ idx = 1
    /\ gathered = <<>>
    /\ unsupported = <<>>
    /\ failures = <<>>
    /\ calls = <<>>
    /\ briefLoaded = FALSE
    /\ stdout = <<>>
    /\ stderr = <<>>
    /\ k = 1
    /\ exitCode = -1
    /\ document = <<>>
    /\ pieces = <<>>
    /\ presentation = <<>>
    /\ slides_output = <<>>

\* CheckSourceDir that goes on when the directory is missing
CheckSourceDir_no_abort ==
    /\ pc = "check"
    /\ pc' = "load"
    /\ UNCHANGED <<envVars, outFile, outParent, request_text, gatherVars,
                   briefLoaded, stdout, stderr, k, exitCode, docVars>>

\* if not source_dir.exists(): raise SystemExit(message)
CheckSourceDir ==
    /\ pc = "check"
    /\ IF srcExists
       THEN /\ pc' = "load"
            /\ UNCHANGED <<stderr, exitCode>>
       ELSE /\ pc' = "exited"
            /\ stderr' = Append(stderr, <<"Source directory not found: ", "source">>)
            /\ exitCode' = 1
    /\ UNCHANGED <<envVars, outFile, outParent, request_text, gatherVars,
                   briefLoaded, stdout, k, docVars>>

\* request_text = load_site_brief(Path(args.request_file))
LoadSiteBrief ==
    /\ pc = "load"
    /\ briefLoaded' = TRUE
    /\ LET r == load_site_brief(briefFile)
       IN  IF r.raised
           THEN /\ pc' = "exited"
                /\ stderr' = Append(stderr, <<"Traceback: ", r.error>>)
                /\ exitCode' = 1
                /\ UNCHANGED request_text
           ELSE /\ pc' = "list"
                /\ request_text' = r.text
                /\ UNCHANGED <<stderr, exitCode>>
    /\ UNCHANGED <<envVars, outFile, outParent, gatherVars, stdout, k, docVars>>

\* gather_sources, up to the evaluation of sorted(source_dir.glob("*"))
GatherStart ==
    /\ pc = "list"
    /\ files' = sorted(glob(dir))
    /\ idx' = 1
    /\ gathered' = <<>>
    /\ unsupported' = <<>>
    /\ failures' = <<>>
    /\ pc' = "gather"
    /\ UNCHANGED <<envVars, outFile, outParent, request_text, calls,
                   briefLoaded, stdout, stderr, k, exitCode, docVars>>

\* gather_one without the continue after unsupported.append: the call of
\* the missing reader raises TypeError, which the except clause records
gather_one_no_continue(b, file_path, r) ==
    IF file_path.isDir THEN b
    ELSE LET reader == reader_for(file_path)
         IN  IF reader = None
             THEN [b EXCEPT !.unsupported = Append(@, file_path),
                            !.failures = Append(@, <<file_path, "TypeError">>)]
             ELSE LET called ==
                          [b EXCEPT !.calls =
                              Append(@, [path |-> file_path, reader |-> reader,
                                         outcome |-> r])]
                  IN  IF r.raised
                      THEN [called EXCEPT !.failures =
                                Append(@, <<file_path, r.error>>)]
                      ELSE [called EXCEPT !.gathered =
                                Append(@, <<file_path, strip(r.text)>>)]

\* gather_one that calls the reader a second time when it raises
gather_one_retry(b, file_path, r) ==
    IF file_path.isDir THEN b
    ELSE LET reader == reader_for(file_path)
             call == [path |-> file_path, reader |-> reader, outcome |-> r]
         IN  IF reader = None
             THEN [b EXCEPT !.unsupported = Append(@, file_path)]
             ELSE IF r.raised
             THEN [b EXCEPT !.calls = Append(Append(@, call), call),
                            !.failures = Append(@, <<file_path, r.error>>)]
             ELSE [b EXCEPT !.calls = Append(@, call),
                            !.gathered = Append(@, <<file_path, strip(r.text)>>)]

\* the body of the for loop of gather_sources on file_path, from the lists
\* b = [gathered, unsupported, failures, calls]; r is what the reader does
\* when it is called
gather_one(b, file_path, r) ==
    IF file_path.isDir THEN b
    ELSE LET reader == reader_for(file_path)
         IN  IF reader = None
             THEN [b EXCEPT !.unsupported = Append(@, file_path)]
             ELSE LET called ==
                          [b EXCEPT !.calls =
                              Append(@, [path |-> file_path, reader |-> reader,
                                         outcome |-> r])]
                  IN  IF r.raised
                      THEN [called EXCEPT !.failures =
                                Append(@, <<file_path, r.error>>)]
                      ELSE [called EXCEPT !.gathered =
                                Append(@, <<file_path, strip(r.text)>>)]

\* one iteration of the for loop of gather_sources
GatherStep ==
    /\ pc = "gather"
    /\ idx <= Len(files)
    /\ idx' = idx + 1
    /\ \E r \in ReaderOutcomes :
         LET b == gather_one([gathered |-> gathered, unsupported |-> unsupported,
                              failures |-> failures, calls |-> calls],
                             files[idx], r)
         IN  /\ gathered' = b.gathered
             /\ unsupported' = b.unsupported
             /\ failures' = b.failures
             /\ calls' = b.calls
    /\ UNCHANGED <<envVars, outFile, outParent, pc, request_text, files,
                   briefLoaded, stdout, stderr, k, exitCode, docVars>>

\* return gathered, unsupported, failures
GatherReturn ==
    /\ pc = "gather"
    /\ idx > Len(files)
    /\ pc' = "build"
    /\ UNCHANGED <<envVars, outFile, outParent, request_text, gatherVars,
                   briefLoaded, stdout, stderr, k, exitCode, docVars>>

\* bundle = build_bundle(...); mkdir(parents=True, exist_ok=True); write_text
WriteBundle ==
    /\ pc = "build"
    /\ \E timestamp \in Timestamps :
         outFile' = [exists |-> TRUE,
                     content |-> build_bundle(request_text, gathered, timestamp)]
    /\ outParent' = TRUE
    /\ pc' = "print_ok"
    /\ UNCHANGED <<envVars, request_text, gatherVars, briefLoaded, stdout,
                   stderr, k, exitCode, docVars>>

SuccessLine == <<"Context bundle written to ", "build/context-bundle.md">>
UnsupportedHeader == <<"Unsupported files (skipped):">>
FailuresHeader == <<"Files that could not be processed:">>
Bullet == "   * "
UnsupportedLine(path) == <<Bullet>> \o path.name
FailureLine(failure) == <<Bullet>> \o failure[1].name \o <<": ", failure[2]>>

PrintSuccess ==
    /\ pc = "print_ok"
    /\ stdout' = Append(stdout, SuccessLine)
    /\ pc' = "report_unsupported"
    /\ UNCHANGED <<envVars, outFile, outParent, request_text, gatherVars,
                   briefLoaded, stderr, k, exitCode, docVars>>

\* if unsupported: print(header)
PrintUnsupportedHeader ==
    /\ pc = "report_unsupported"
    /\ IF unsupported # <<>>
       THEN /\ stdout' = Append(stdout, UnsupportedHeader)
            /\ pc' = "unsupported_loop"
       ELSE /\ pc' = "report_failures"
            /\ UNCHANGED stdout
    /\ k' = 1
    /\ UNCHANGED <<envVars, outFile, outParent, request_text, gatherVars,
                   briefLoaded, stderr, exitCode, docVars>>

\* PrintUnsupportedItem that prints the first path in every iteration
PrintUnsupportedItem_first ==
    /\ pc = "unsupported_loop"
    /\ stdout' = Append(stdout, UnsupportedLine(unsupported[1]))
    /\ k' = k + 1
    /\ pc' = IF k = Len(unsupported) THEN "report_failures" ELSE pc
    /\ UNCHANGED <<envVars, outFile, outParent, request_text, gatherVars,
                   briefLoaded, stderr, exitCode, docVars>>

\* for path in unsupported: print(path.name)
PrintUnsupportedItem ==
    /\ pc = "unsupported_loop"
    /\ stdout' = Append(stdout, UnsupportedLine(unsupported[k]))
    /\ k' = k + 1
    /\ pc' = IF k = Len(unsupported) THEN "report_failures" ELSE pc
    /\ UNCHANGED <<envVars, outFile, outParent, request_text, gatherVars,
                   briefLoaded, stderr, exitCode, docVars>>

\* if failures: print(header)
PrintFailuresHeader ==
    /\ pc = "report_failures"
    /\ IF failures # <<>>
       THEN /\ stdout' = Append(stdout, FailuresHeader)
            /\ pc' = "failures_loop"
       ELSE /\ pc' = "return"
            /\ UNCHANGED stdout
    /\ k' = 1
    /\ UNCHANGED <<envVars, outFile, outParent, request_text, gatherVars,
                   briefLoaded, stderr, exitCode, docVars>>

\* for path, error in failures: print(path.name, error)
PrintFailureItem ==
    /\ pc = "failures_loop"
    /\ stdout' = Append(stdout, FailureLine(failures[k]))
    /\ k' = k + 1
    /\ pc' = IF k = Len(failures) THEN "return" ELSE pc
    /\ UNCHANGED <<envVars, outFile, outParent, request_text, gatherVars,
                   briefLoaded, stderr, exitCode, docVars>>

\* main returns and the interpreter exits with status 0
Return ==
    /\ pc = "return"
    /\ pc' = "exited"
    /\ exitCode' = 0
    /\ UNCHANGED <<envVars, outFile, outParent, request_text, gatherVars,
                   briefLoaded, stdout, stderr, k, docVars>>

Next ==
    \/ CheckSourceDir
    \/ LoadSiteBrief
    \/ GatherStart
    \/ GatherStep
    \/ GatherReturn
    \/ WriteBundle
    \/ PrintSuccess
    \/ PrintUnsupportedHeader
    \/ PrintUnsupportedItem
    \/ PrintFailuresHeader
    \/ PrintFailureItem
    \/ Return

Spec == Init /\ [][Next]_vars

(***************************************************************************)
(* read_docx                                                               *)
(***************************************************************************)
Paragraph(text) == [kind |-> "paragraph", text |-> text, rows |-> <<>>]
Table(rows) == [kind |-> "table", text |-> <<>>, rows |-> rows]

\* the body elements a document is drawn from; a row is its cells' texts
BodyElements ==
    { Paragraph(<<" ", "Intro", " ">>),
      Paragraph(<<"Outro">>),
      Paragraph(<<" ", "\n">>),
      Table(<< <<<<"Name">>, <<" ">>, <<" ", "Role">>>>, <<<<>>, <<" ">>>> >>),
      Table(<< <<<<"x">>>>, <<<<"y">>, <<"z">>>> >>),
      Table(<<>>) }

RECURSIVE SeqsUpTo(_, _)
SeqsUpTo(S, n) ==
    IF n = 0 THEN {<<>>}
    ELSE LET shorter == SeqsUpTo(S, n - 1)
         IN  shorter \cup {Append(q, x) : q \in shorter, x \in S}

\* for paragraph in document.paragraphs, from body position i on; src is the
\* place of the piece in the document: <<position, 0>>
RECURSIVE ParagraphPieces(_, _)
ParagraphPieces(body, i) ==
    IF i > Len(body) THEN <<>>
    ELSE LET text == strip(body[i].text)
         IN  (IF body[i].kind = "paragraph" /\ text # <<>>
              THEN <<[text |-> text, src |-> <<i, 0>>]>>
              ELSE <<>>) \o ParagraphPieces(body, i + 1)

\* [cell.text.strip() for cell in row.cells if cell.text.strip()]
RECURSIVE NonEmptyCells(_)
NonEmptyCells(row) ==
    IF row = <<>> THEN <<>>
    ELSE (IF strip(Head(row)) # <<>> THEN <<strip(Head(row))>> ELSE <<>>)
         \o NonEmptyCells(Tail(row))

\* for row in table.rows, from row r on, of the table at body position i
RECURSIVE RowPieces(_, _, _)
RowPieces(rows, i, r) ==
    IF r > Len(rows) THEN <<>>
    ELSE LET cells == NonEmptyCells(rows[r])
         IN  (IF cells # <<>>
              THEN <<[text |-> join(<<" | ">>, cells), src |-> <<i, r>>]>>
              ELSE <<>>) \o RowPieces(rows, i, r + 1)

\* for table in document.tables, from body position i on
RECURSIVE TablePieces(_, _)
TablePieces(body, i) ==
    IF i > Len(body) THEN <<>>
    ELSE (IF body[i].kind = "table" THEN RowPieces(body[i].rows, i, 1) ELSE <<>>)
         \o TablePieces(body, i + 1)

\* read_docx that walks the tables before the paragraphs
read_docx_tables_first(body) == TablePieces(body, 1) \o ParagraphPieces(body, 1)

\* the list pieces of read_docx; the function returns "\n".join of the texts
read_docx(body) == ParagraphPieces(body, 1) \o TablePieces(body, 1)

InitMainIdle ==
    /\ srcExists = FALSE
    /\ dir = {}
    /\ briefFile = [state |-> "absent", content |-> <<>>]
    /\ outFile = [exists |-> FALSE, content |-> <<>>]
    /\ outParent = FALSE
    /\ request_text = <<>>
    /\ files = <<>>
    /\ idx = 1
    /\ gathered = <<>>
    /\ unsupported = <<>>
    /\ failures = <<>>
    /\ calls = <<>>
    /\ briefLoaded = FALSE
    /\ stdout = <<>>
    /\ stderr = <<>>
    /\ k = 1
    /\ exitCode = -1

mainVars == <<envVars, outFile, outParent, request_text, gatherVars,
              briefLoaded, stdout, stderr, k, exitCode>>

InitDocx ==
    /\ InitMainIdle
    /\ pc = "read_docx"
    /\ document \in SeqsUpTo(BodyElements, MaxBody)
    /\ pieces = <<>>
    /\ presentation = <<>>
    /\ slides_output = <<>>

ReadDocx ==
    /\ pc = "read_docx"
    /\ pieces' = read_docx(document)
    /\ pc' = "docx_done"
    /\ UNCHANGED <<mainVars, document, presentation, slides_output>>

NextDocx == ReadDocx

SpecDocx == InitDocx /\ [][NextDocx]_vars

(***************************************************************************)
(* read_pptx                                                               *)
(***************************************************************************)
\* a shape: hasattr(shape, "text") and shape.text, which may be None
TextShape(text) == [hasText |-> TRUE, isNone |-> FALSE, text |-> text]
NoneTextShape == [hasText |-> TRUE, isNone |-> TRUE, text |-> <<>>]
Picture == [hasText |-> FALSE, isNone |-> FALSE, text |-> <<>>]

\* the slides a presentation is drawn from; a slide is its shapes
Slides ==
    { <<>>,
      <<Picture, NoneTextShape>>,
      <<TextShape(<<" ", "\n">>)>>,
      <<TextShape(<<" ", "Title", " ">>)>>,
      <<Picture, TextShape(<<"Hello">>), TextShape(<<"World", "\n">>)>> }

\* the fragments of a slide, from its shapes
RECURSIVE Fragments(_)
Fragments(shapes) ==
    IF shapes = <<>> THEN <<>>
    ELSE LET shape == Head(shapes)
             text == strip(IF shape.isNone THEN <<>> ELSE shape.text)
         IN  (IF shape.hasText /\ text # <<>> THEN <<text>> ELSE <<>>)
             \o Fragments(Tail(shapes))

SlideBlock(index, fragments) ==
    <<"Slide ", ToString(index), ":", "\n">> \o join(<<"\n">>, fragments)

\* the loop over enumerate(presentation.slides, start=1), from index on
RECURSIVE SlideBlocks(_, _)
SlideBlocks(slides, index) ==
    IF index > Len(slides) THEN <<>>
    ELSE LET fragments == Fragments(slides[index])
         IN  (IF fragments # <<>> THEN <<SlideBlock(index, fragments)>> ELSE <<>>)
             \o SlideBlocks(slides, index + 1)

\* the loop with a counter that only advances on a slide that has text
RECURSIVE SlideBlocksCounted(_, _)
SlideBlocksCounted(slides, n) ==
    IF slides = <<>> THEN <<>>
    ELSE LET fragments == Fragments(Head(slides))
         IN  IF fragments # <<>>
             THEN <<SlideBlock(n, fragments)>> \o SlideBlocksCounted(Tail(slides), n + 1)
             ELSE SlideBlocksCounted(Tail(slides), n)

\* read_pptx that numbers the slides among the slides that have text
read_pptx_renumbered(slides) == SlideBlocksCounted(slides, 1)

\* the list slides_output of read_pptx; the function returns its "\n\n".join
read_pptx(slides) == SlideBlocks(slides, 1)

InitPptx ==
    /\ InitMainIdle
    /\ pc = "read_pptx"
    /\ document = <<>>
    /\ pieces = <<>>
    /\ presentation \in SeqsUpTo(Slides, MaxSlides)
    /\ slides_output = <<>>

ReadPptx ==
    /\ pc = "read_pptx"
    /\ slides_output' = read_pptx(presentation)
    /\ pc' = "pptx_done"
    /\ UNCHANGED <<mainVars, document, pieces, presentation>>

NextPptx == ReadPptx

SpecPptx == InitPptx /\ [][NextPptx]_vars

(***************************************************************************)
(* Properties of gather_sources                                            *)
(***************************************************************************)
Range(seq) == {seq[i] : i \in DOMAIN seq}
Firsts(pairs) == [i \in DOMAIN pairs |-> pairs[i][1]]
Count(seq, x) == Cardinality({i \in DOMAIN seq : seq[i] = x})

\* gather_sources has returned
Returned ==
    \/ pc \in {"build", "print_ok", "report_unsupported", "unsupported_loop",
               "report_failures", "failures_loop", "return"}
    \/ pc = "exited" /\ exitCode = 0

\* the bundle has been written by this run
Written == Returned /\ pc # "build"

RecognizedExtensions ==
    { <<".", "docx">>, <<".", "pdf">>, <<".", "pptx">>, <<".", "txt">>,
      <<".", "md">> }

Recognized(file_path) == lower(suffix(file_path.name)) \in RecognizedExtensions

CallsFor(file_path) == Cardinality({i \in DOMAIN calls : calls[i].path = file_path})

\* C1: once gather_sources has returned, the three collections hold every
\* non-directory entry of the source directory exactly once, and nothing else
C1_BucketsPartitionListing ==
    Returned =>
        LET all == Firsts(gathered) \o unsupported \o Firsts(failures)
        IN  /\ \A i, j \in DOMAIN all : i # j => all[i] # all[j]
            /\ Range(all) = {e \in dir : ~e.isDir}

C1_Witness ==
    /\ Returned
    /\ gathered # <<>> /\ unsupported # <<>> /\ failures # <<>>
    /\ \E e \in dir : e.isDir

\* C2: a file whose reader raised is in failures once, with the error raised,
\* its reader was called once, and every later file of the listing still
\* reaches its bucket
C2_FailureRecordedOnceNoAbort ==
    /\ \A i \in DOMAIN failures :
         /\ Count(Firsts(failures), failures[i][1]) = 1
         /\ CallsFor(failures[i][1]) = 1
         /\ \E c \in DOMAIN calls :
              /\ calls[c].path = failures[i][1]
              /\ calls[c].outcome.raised
              /\ calls[c].outcome.error = failures[i][2]
    /\ \A c \in DOMAIN calls :
         calls[c].outcome.raised =>
             <<calls[c].path, calls[c].outcome.error>> \in Range(failures)
    /\ Returned =>
         \A i, j \in DOMAIN files :
             (i < j /\ files[i] \in Range(Firsts(failures)) /\ ~files[j].isDir)
                 => files[j] \in Range(Firsts(gathered)) \cup Range(unsupported)
                                 \cup Range(Firsts(failures))

C2_Witness ==
    /\ Returned
    /\ \E i, j \in DOMAIN files :
         /\ i < j
         /\ files[i] \in Range(Firsts(failures))
         /\ files[j] \in Range(Firsts(gathered))

\* C3: a file that the loop has passed is in unsupported exactly when its
\* extension, lower-cased, is none of the five recognized ones; a reader is
\* called once for a recognized file and never for another one
C3_UnsupportedIffNotRecognized ==
    \A i \in DOMAIN files :
        (pc # "list" /\ i < idx /\ ~files[i].isDir) =>
            /\ (files[i] \in Range(unsupported)) <=> ~Recognized(files[i])
            /\ CallsFor(files[i]) = (IF Recognized(files[i]) THEN 1 ELSE 0)

C3_Witness ==
    /\ Returned
    /\ File(<<"b", ".", "PDF">>) \in Range(Firsts(gathered))
    /\ File(<<".", "txt">>) \in Range(unsupported)
    /\ File(<<"b", ".", "csv">>) \in Range(unsupported)

(***************************************************************************)
(* Properties of the bundle and of main                                    *)
(***************************************************************************)
\* the lines of s: s.split("\n")
RECURSIVE split(_)
split(s) ==
    IF ~Contains(s, "\n") THEN <<s>>
    ELSE LET i == CHOOSE n \in DOMAIN s :
                      s[n] = "\n" /\ \A m \in 1..(n - 1) : s[m] # "\n"
         IN  <<SubSeq(s, 1, i - 1)>> \o split(SubSeq(s, i + 1, Len(s)))

IsHeading(line) == line # <<>> /\ Head(line) = H3

\* the file names of the source sections of a bundle, in order
Headings(content) ==
    LET hs == SelectSeq(split(content), IsHeading)
    IN  [i \in DOMAIN hs |-> Tail(hs[i])]

\* the paths whose reader returned
Extracted == {calls[c].path : c \in {n \in DOMAIN calls : ~calls[n].outcome.raised}}

WasExtracted(file_path) == file_path \in Extracted

\* C4: the written bundle has one section per file whose reader returned, none
\* for another file, in the order of the sorted listing
C4_SectionsFollowSortedListing ==
    Written =>
        LET succ == SelectSeq(files, WasExtracted)
        IN  /\ Headings(outFile.content) =
                   [i \in DOMAIN succ |-> sanitize_heading(succ[i].name)]
            /\ Range(files) = dir
            /\ \A i, j \in DOMAIN files :
                   i < j => StrLess(files[i].name, files[j].name)

C4_Witness ==
    /\ Written
    /\ Len(Headings(outFile.content)) = 2
    /\ unsupported # <<>>
    /\ \E i, j, m \in DOMAIN files :
         /\ i < j /\ j < m
         /\ WasExtracted(files[i]) /\ WasExtracted(files[m])
         /\ files[j] \in Range(Firsts(failures))

\* C5: a run whose source directory exists ends with status 0 and a written
\* bundle, whatever the request file is
C5_OnlyMissingSourceDirFails ==
    (srcExists /\ pc = "exited") => (exitCode = 0 /\ Written)

\* C6: with the source directory missing the run loads no brief, calls no
\* reader, leaves the output file and its parent as they were, prints nothing,
\* and its exit status is not 0
C6_MissingSourceDirAbortsBeforeWork ==
    /\ [](~srcExists =>
            /\ ~briefLoaded
            /\ calls = <<>>
            /\ stdout = <<>>
            /\ pc \in {"check", "exited"}
            /\ (pc = "exited" => exitCode > 0))
    /\ [][~srcExists => UNCHANGED <<outFile, outParent>>]_vars

C6_Witness == ~srcExists /\ pc = "exited" /\ outFile.exists

\* the part of a bundle before the Source Material heading
BriefSection(content) ==
    LET i == CHOOSE n \in DOMAIN content :
                 content[n] = SourceHeading /\
                 \A m \in 1..(n - 1) : content[m] # SourceHeading
    IN  SubSeq(content, 1, i - 1)

FencedBrief(text) == <<YamlFence, "\n">> \o text \o <<"\n", Fence>>

\* C9 as claimed: with an empty brief the bundle has the placeholder and no
\* YAML fence anywhere; with a brief it has the brief inside a YAML fence
C9_NoYamlFenceAnywhere ==
    Written =>
        IF request_text = <<>>
        THEN /\ Contains(outFile.content, NoBriefNotice)
             /\ ~Contains(outFile.content, YamlFence)
        ELSE HasSub(outFile.content, FencedBrief(request_text))

\* C9 amended: with an empty brief the bundle has the placeholder and no YAML
\* fence before the Source Material heading; with a brief it has the lines
\* of the YAML fence, the brief and the closing fence one after the other
C9_NoYamlFenceInBriefSection ==
    Written =>
        IF request_text = <<>>
        THEN /\ Contains(outFile.content, NoBriefNotice)
             /\ ~Contains(BriefSection(outFile.content), YamlFence)
        ELSE HasSub(outFile.content, FencedBrief(request_text))

C9_Witness ==
    /\ Written
    /\ request_text = <<>>
    /\ briefFile.state = "absent"
    /\ Contains(outFile.content, YamlFence)

EmittedParagraphs ==
    {<<i, 0>> : i \in {n \in DOMAIN document :
                           /\ document[n].kind = "paragraph"
                           /\ \E t \in Range(document[n].text) : ~IsSpace(t)}}

EmittedRows ==
    UNION {{<<i, r>> : r \in {n \in DOMAIN document[i].rows :
                                  \E c \in Range(document[i].rows[n]) :
                                      \E t \in Range(c) : ~IsSpace(t)}}
           : i \in {n \in DOMAIN document : document[n].kind = "table"}}

\* one piece per place that has text to emit
OnePiecePerElement ==
    /\ {pieces[i].src : i \in DOMAIN pieces} = EmittedParagraphs \cup EmittedRows
    /\ \A i, j \in DOMAIN pieces : i # j => pieces[i].src # pieces[j].src

\* place a comes before place b in the document
DocBefore(a, b) == a[1] < b[1] \/ (a[1] = b[1] /\ a[2] < b[2])

IsRowPiece(piece) == piece.src[2] > 0

\* C7 as claimed: one piece per non-empty paragraph and per table row with a
\* non-empty cell, all of them in document order
C7_PiecesInDocumentOrder ==
    pc = "docx_done" =>
        /\ OnePiecePerElement
        /\ \A i, j \in DOMAIN pieces :
               i < j => DocBefore(pieces[i].src, pieces[j].src)

\* C7 amended: one piece per non-empty paragraph and per table row with a
\* non-empty cell; the paragraphs come first, in document order, and the
\* table rows follow them, in document order
C7_ParagraphsThenTableRows ==
    pc = "docx_done" =>
        /\ OnePiecePerElement
        /\ \A i, j \in DOMAIN pieces :
               i < j =>
                 /\ ~(IsRowPiece(pieces[i]) /\ ~IsRowPiece(pieces[j]))
                 /\ (IsRowPiece(pieces[i]) = IsRowPiece(pieces[j])
                        => DocBefore(pieces[i].src, pieces[j].src))

C7_Witness ==
    /\ pc = "docx_done"
    /\ \E i, j \in DOMAIN pieces :
         /\ i < j
         /\ ~IsRowPiece(pieces[i]) /\ IsRowPiece(pieces[j])
         /\ DocBefore(pieces[j].src, pieces[i].src)

\* the slide at position i has a shape whose text is not blank
HasTextSlide(i) ==
    \E n \in DOMAIN presentation[i] :
        /\ presentation[i][n].hasText
        /\ ~presentation[i][n].isNone
        /\ \E t \in Range(presentation[i][n].text) : ~IsSpace(t)

\* C8: there is a block for exactly the slides that have text, in slide
\* order, and the number in its header is the position of the slide among
\* all the slides
C8_SlideNumberIsPosition ==
    pc = "pptx_done" =>
        LET T == {i \in DOMAIN presentation : HasTextSlide(i)}
        IN  /\ Len(slides_output) = Cardinality(T)
            /\ \A n \in DOMAIN slides_output :
                 \E i \in T :
                     /\ Cardinality({j \in T : j < i}) = n - 1
                     /\ SubSeq(slides_output[n], 1, 4) =
                            <<"Slide ", ToString(i), ":", "\n">>

C8_Witness ==
    /\ pc = "pptx_done"
    /\ Len(presentation) = 3
    /\ ~HasTextSlide(1) /\ HasTextSlide(2) /\ ~HasTextSlide(3)
    /\ Len(slides_output) = 1

====
